---- MODULE Spec2Model ----
(***************************************************************************)
(* A model of the two notebooks of session_2: the customer-table cleaning  *)
(* pipeline (pandas) and the MNIST training pipeline (PyTorch).  Every     *)
(* code cell of a notebook is one action; pc / tpc hold the next cell.     *)
(*                                                                         *)
(* Numbers.  A nullable cell is a sequence: << >> is None/NaN, <<v>> holds *)
(* v.  Reals are fixed point: age in quarter years (a median of a median   *)
(* of integers is a multiple of 1/4), purchase_amount in thousandths of a  *)
(* dollar (a mean is rounded to the nearest thousandth, ties to even, as   *)
(* float64 rounds it to the nearest double), satisfaction_score in halves. *)
(***************************************************************************)
EXTENDS Integers, Sequences, FiniteSets, TLC

VARIABLES
    df,              \* the DataFrame: a sequence of rows (records)
    raw,             \* history: the DataFrame as it was generated
    pc,              \* cleaning notebook: the next cell to run
    err,             \* the exception that stopped the cleaning notebook, "" if none
    csv,             \* clean_customer_data.csv: << >> (absent) or its lines
    quality_metrics, \* the summary dictionary, << >> until computed
    tpc,             \* training notebook: the state of the loop / the next cell
    terr,            \* the exception that stopped the training notebook, "" if none
    epochs,          \* the configured epoch count
    epoch,           \* the loop variable of `for epoch in range(epochs)`
    it,              \* batches of the current pass already taken from its loader
    train_loader,    \* the number of batches of one pass over the training set
    test_dataset,    \* the test samples, in order
    batch_size,      \* the batch size of test_loader
    model,           \* [params, training]: the parameters and the mode flag
    grad,            \* the .grad of the parameters
    optimizer,       \* Adam's state: [t, m]
    train_loss,      \* running accumulators
    val_loss,
    train_losses,    \* recorded per-epoch averages
    val_losses,
    correct,         \* evaluate_model's counters and the accuracy it printed
    total,
    accuracy,
    file,            \* mnist_model.pth: << >> (absent) or the serialized state_dict
    loaded_model,    \* << >> until the load cell ran
    prediction,      \* << >> until the prediction cell ran
    log,             \* history: the batches processed by the loop, in order
    images,          \* a tensor handed to the forward pass: << >> or [shape, x]
    outputs          \* what the forward pass gave for it: << >> until it ran

cleanVars == <<df, raw, pc, err, csv, quality_metrics>>

trainVars ==
    <<tpc, terr, epochs, epoch, it, train_loader, test_dataset, batch_size, model,
      grad, optimizer, train_loss, val_loss, train_losses, val_losses, correct,
      total, accuracy, file, loaded_model, prediction, log>>

forwardVars == <<images, outputs>>

vars == <<cleanVars, trainVars, forwardVars>>

----------------------------------------------------------------------------
(* Bounds of the model *)

MaxRows == 3

(* Program constants *)
AgeLower == 18
AgeUpper == 90
InvalidAge == -1
InvalidPurchase == -100
NumQuantiles == 4
NumClasses == 10

----------------------------------------------------------------------------
(* Nullable cells *)

Null == << >>
Some(v) == <<v>>
IsNull(c) == c = << >>
Val(c) == c[1]

(* Units of the fixed-point columns *)
Years(a) == a * 4          \* age: quarter years
Dollars(d) == d * 1000     \* purchase_amount: thousandths
Score(s) == s * 2          \* satisfaction_score: halves

Max2(a, b) == IF a >= b THEN a ELSE b
Min2(a, b) == IF a <= b THEN a ELSE b

(* s / n rounded to the nearest integer, ties to even (n > 0). *)
DivRound(s, n) ==
    LET q == s \div n
        r == s % n
    IN  IF 2 * r < n THEN q
        ELSE IF 2 * r > n THEN q + 1
        ELSE IF q % 2 = 0 THEN q ELSE q + 1

(* The column `col` of the table as a sequence of cells. *)
Column(t, col) == [i \in 1..Len(t) |-> t[i][col]]

(* The table with column `col` replaced by the cells `cells`. *)
SetColumn(t, col, cells) == [i \in 1..Len(t) |-> [t[i] EXCEPT ![col] = cells[i]]]

NonNull(cells) == {i \in 1..Len(cells) : ~IsNull(cells[i])}

HasNull(cells) == \E i \in 1..Len(cells) : IsNull(cells[i])

Sum(cells, S) ==
    LET RECURSIVE Acc(_)
        Acc(T) == IF T = {} THEN 0
                  ELSE LET i == CHOOSE j \in T : TRUE
                       IN  Val(cells[i]) + Acc(T \ {i})
    IN  Acc(S)

(* The number of non-null cells with a value below v, and at most v. *)
Below(cells, v) == Cardinality({i \in NonNull(cells) : Val(cells[i]) < v})
AtMost(cells, v) == Cardinality({i \in NonNull(cells) : Val(cells[i]) <= v})

(* The k-th smallest (k in 1..count) of the non-null cells. *)
Kth(cells, k) ==
    Val(cells[CHOOSE i \in NonNull(cells) :
                  Below(cells, Val(cells[i])) < k /\ k <= AtMost(cells, Val(cells[i]))])

(* Series.median(): nulls are skipped; NaN (Null) when nothing is left. *)
Median(cells) ==
    LET n == Cardinality(NonNull(cells))
    IN  IF n = 0 THEN Null
        ELSE IF n % 2 = 1 THEN Some(Kth(cells, (n + 1) \div 2))
        ELSE Some((Kth(cells, n \div 2) + Kth(cells, n \div 2 + 1)) \div 2)

(* Series.mean(): nulls are skipped; NaN (Null) when nothing is left. *)
Mean(cells) ==
    LET S == NonNull(cells)
    IN  IF S = {} THEN Null ELSE Some(DivRound(Sum(cells, S), Cardinality(S)))

(* Series.fillna(value): fillna(NaN) fills nothing. *)
FillNa(cells, value) ==
    [i \in 1..Len(cells) |-> IF IsNull(cells[i]) THEN value ELSE cells[i]]

(* Series.apply(lambda x: None if x < 0 else x): NaN < 0 is False. *)
NullNegatives(cells) ==
    [i \in 1..Len(cells) |->
        IF ~IsNull(cells[i]) /\ Val(cells[i]) < 0 THEN Null ELSE cells[i]]

----------------------------------------------------------------------------
(* The cells of the cleaning notebook, each a function from table to table *)

(* df["email"] = df["email"].fillna("unknown") *)
FillEmail(t) ==
    SetColumn(t, "email", FillNa(Column(t, "email"), Some("unknown")))

(* df["category"] = df["category"].fillna("Other") *)
FillCategory(t) ==
    SetColumn(t, "category", FillNa(Column(t, "category"), Some("Other")))

(* df[c] = df[c].fillna(df[c].median()) *)
FillMedian(t, col) ==
    SetColumn(t, col, FillNa(Column(t, col), Median(Column(t, col))))

(* df[c] = df[c].fillna(df[c].mean()) *)
FillMean(t, col) ==
    SetColumn(t, col, FillNa(Column(t, col), Mean(Column(t, col))))

FillSatisfaction(t) == FillMedian(t, "satisfaction_score")

(* Mutant of FillAge: the first-pass fill of age is left out. *)
FillAgeSkipped(t) == t

FillAge(t) == FillMedian(t, "age")

FillPurchase(t) == FillMean(t, "purchase_amount")

(* df["age"] = df["age"].apply(lambda x: None if x < 0 else x)
   df["age"] = df["age"].fillna(df["age"].median()) *)
FixAge(t) ==
    FillMedian(SetColumn(t, "age", NullNegatives(Column(t, "age"))), "age")

(* The same for purchase_amount, with the mean. *)
FixPurchase(t) ==
    FillMean(SetColumn(t, "purchase_amount",
                       NullNegatives(Column(t, "purchase_amount"))),
             "purchase_amount")

(* The table after the whole repair step (both passes, all three columns). *)
Repair(t) == FixPurchase(FixAge(FillPurchase(FillAge(FillSatisfaction(t)))))

(* Series.clip(lower=18, upper=90) on one value (quarter years). *)
ClipValue(x) == Max2(Years(AgeLower), Min2(Years(AgeUpper), x))

(* Mutant of Round2: the rounded number of cents is not scaled back to the
   column's unit. *)
Round2NotScaledBack(x) == DivRound(x, 10)

(* Series.round(2) on one value (thousandths): the nearest cent, ties to even. *)
Round2(x) == DivRound(x, 10) * 10

(* Mutant of RoundInt: the value is not rounded. *)
RoundIntSkipped(x) == x

(* Series.round().astype(int) on one value (halves): the nearest integer,
   ties to even, kept in the column's unit. *)
RoundInt(x) == Score(DivRound(x, 2))

MapColumn(t, col, F(_)) ==
    SetColumn(t, col,
              [i \in 1..Len(t) |->
                  IF IsNull(t[i][col]) THEN Null ELSE Some(F(Val(t[i][col])))])

(* df["age"] = df["age"].clip(lower=18, upper=90): NaN stays NaN. *)
ClipAge(t) == MapColumn(t, "age", ClipValue)

(* df["purchase_amount"] = df["purchase_amount"].round(2) *)
RoundPurchase(t) == MapColumn(t, "purchase_amount", Round2)

(* Mutant of RoundSatisfaction: the rounded values are taken from the
   purchase_amount column (in dollars). *)
RoundSatisfactionOfPurchase(t) ==
    SetColumn(t, "satisfaction_score",
              [i \in 1..Len(t) |->
                  IF IsNull(t[i].purchase_amount) THEN Null
                  ELSE Some(Score(DivRound(Val(t[i].purchase_amount), 1000)))])

(* df["satisfaction_score"] = df["satisfaction_score"].round().astype(int);
   astype(int) raises on NaN, which the action checks before it applies this. *)
RoundSatisfaction(t) == MapColumn(t, "satisfaction_score", RoundInt)

(* df["purchase_month"] = df["purchase_date"].dt.month *)
PurchaseMonth(t) ==
    SetColumn(t, "purchase_month",
              [i \in 1..Len(t) |-> Some(Val(t[i].purchase_date).month)])

(* Mutant of QcutEdge4: the quantile is the value at the position rounded
   down (interpolation="lower") instead of the interpolated one. *)
QcutEdge4Lower(cells, k) ==
    NumQuantiles * Kth(cells, (k * (Cardinality(NonNull(cells)) - 1)) \div NumQuantiles + 1)

(* pd.qcut(x, q=4, labels): the edges are the quantiles 0, 1/4, .., 1 of the
   non-null values by linear interpolation, here times 4 so that they stay
   integers: at position p = k (n - 1) / 4 of the sorted values. *)
QcutEdge4(cells, k) ==
    LET n == Cardinality(NonNull(cells))
        p == k * (n - 1)
        lo == p \div NumQuantiles
        r == p % NumQuantiles
        a == Kth(cells, lo + 1)
        b == IF r = 0 THEN a ELSE Kth(cells, lo + 2)
    IN  NumQuantiles * a + r * (b - a)

(* qcut raises ValueError("Bin edges must be unique") (duplicates="raise"),
   also when every value is NaN. *)
QcutRaises(cells) ==
    IF NonNull(cells) = {} THEN TRUE
    ELSE \E k \in 0..(NumQuantiles - 1) : QcutEdge4(cells, k) = QcutEdge4(cells, k + 1)

(* Mutant of QcutBin: a value on an edge goes to the upper bin (right=False). *)
QcutBinUpper(cells, x) ==
    IF NumQuantiles * x >= QcutEdge4(cells, NumQuantiles) THEN NumQuantiles
    ELSE CHOOSE k \in 1..NumQuantiles :
            /\ QcutEdge4(cells, k - 1) <= NumQuantiles * x
            /\ NumQuantiles * x < QcutEdge4(cells, k)

(* The bin 1..4 of the value x: the first edge that is >= x (searchsorted,
   side="left"), the lowest edge itself included in bin 1 (include_lowest). *)
QcutBin(cells, x) ==
    IF NumQuantiles * x <= QcutEdge4(cells, 1) THEN 1
    ELSE CHOOSE k \in 2..NumQuantiles :
            /\ QcutEdge4(cells, k - 1) < NumQuantiles * x
            /\ NumQuantiles * x <= QcutEdge4(cells, k)

PurchaseLabels == <<"Low", "Medium", "High", "Premium">>

PurchaseCategory(t) ==
    LET cells == Column(t, "purchase_amount")
    IN  SetColumn(t, "purchase_category",
                  [i \in 1..Len(t) |->
                      IF IsNull(cells[i]) THEN Null
                      ELSE Some(PurchaseLabels[QcutBin(cells, Val(cells[i]))])])

(* Mutant of AgeBins: the lowest edge is the lowest age itself. *)
AgeBinsFrom18 == <<18, 25, 35, 50, 65, 90>>

AgeBins == <<17, 25, 35, 50, 65, 90>>
AgeLabels == <<"18-25", "26-35", "36-50", "51-65", "65+">>

(* pd.cut(x, bins, labels) on one cell: the right-closed bin that holds the
   value, NaN for NaN and for a value outside (17, 90]. *)
CutAge(c) ==
    IF IsNull(c) THEN Null
    ELSE LET hit == {k \in 1..Len(AgeLabels) :
                        Years(AgeBins[k]) < Val(c) /\ Val(c) <= Years(AgeBins[k + 1])}
         IN  IF hit = {} THEN Null ELSE Some(AgeLabels[CHOOSE k \in hit : TRUE])

AgeGroup(t) ==
    SetColumn(t, "age_group", [i \in 1..Len(t) |-> CutAge(t[i].age)])

Columns ==
    <<"customer_id", "name", "age", "email", "purchase_amount", "purchase_date",
      "category", "satisfaction_score", "phone_number", "purchase_month",
      "purchase_category", "age_group">>

(* df.isnull().sum().sum() *)
MissingValues(t) ==
    Cardinality({<<i, k>> \in (1..Len(t)) \X (1..Len(Columns)) : IsNull(t[i][Columns[k]])})

(* df.to_csv("clean_customer_data.csv", index=False): the header and one line
   per row. *)
ToCsv(t) == <<Columns>> \o t

(* Series.min() / Series.max(): NaN when every value is NaN. *)
ColMin(cells) == IF NonNull(cells) = {} THEN Null ELSE Some(Kth(cells, 1))
ColMax(cells) ==
    IF NonNull(cells) = {} THEN Null ELSE Some(Kth(cells, Cardinality(NonNull(cells))))

QualityMetrics(t) ==
    [total_records |-> Len(t),
     missing_values |-> MissingValues(t),
     duplicate_records |->
         Cardinality({i \in 1..Len(t) : \E j \in 1..(i - 1) : t[j] = t[i]}),
     age_range |-> <<ColMin(Column(t, "age")), ColMax(Column(t, "age"))>>,
     purchase_range |-> <<ColMin(Column(t, "purchase_amount")),
                          ColMax(Column(t, "purchase_amount"))>>,
     unique_categories |-> Cardinality({t[i].category : i \in 1..Len(t)}),
     average_satisfaction |-> Mean(Column(t, "satisfaction_score"))]

----------------------------------------------------------------------------
(* The generated table (the data dictionary and the injected messiness) *)

BaseAges == <<20, 89, 47, 18>>
BasePurchases == <<500125, 301495, 250000, 640000>>
BaseScores == <<2, 3, 5, 1>>
BaseCategories == <<"Electronics", "Clothing", "Books", "Home">>

Cyc(seq, i) == seq[((i - 1) % Len(seq)) + 1]

(* What was injected into a row: a in {"ok", "none", "invalid"} for age and
   for purchase_amount, s in {"ok", "none"} for satisfaction_score. *)
Injections == [a : {"ok", "none", "invalid"}, p : {"ok", "none", "invalid"},
               s : {"ok", "none"}]

(* Row i of the generated table.  messy: the defects of the text columns
   (no email, no category, the phone number "invalid") are in the first row. *)
RawRow(i, inj, messy) ==
    [customer_id |-> Some(i),
     name |-> Some(<<"Customer", i>>),
     age |-> CASE inj.a = "ok" -> Some(Years(Cyc(BaseAges, i)))
               [] inj.a = "none" -> Null
               [] OTHER -> Some(Years(InvalidAge)),
     email |-> IF messy /\ i = 1 THEN Null ELSE Some(<<"customer", i, "@email.com">>),
     purchase_amount |->
             CASE inj.p = "ok" -> Some(Cyc(BasePurchases, i))
               [] inj.p = "none" -> Null
               [] OTHER -> Some(Dollars(InvalidPurchase)),
     purchase_date |-> Some([year |-> 2023, month |-> 1, day |-> i]),
     category |-> IF messy /\ i = 1 THEN Null ELSE Some(Cyc(BaseCategories, i)),
     satisfaction_score |->
             IF inj.s = "ok" THEN Some(Score(Cyc(BaseScores, i))) ELSE Null,
     phone_number |-> Some(IF messy /\ i = 1 THEN <<"invalid">> ELSE <<"+1-555-", i>>),
     purchase_month |-> Null,
     purchase_category |-> Null,
     age_group |-> Null]

RawTable(n, inj, messy) == [i \in 1..n |-> RawRow(i, inj[i], messy)]

----------------------------------------------------------------------------
(* The cleaning notebook *)

Init ==
    /\ \E n \in 1..MaxRows : \E inj \in [1..n -> Injections] : \E messy \in BOOLEAN :
          df = RawTable(n, inj, messy)
    /\ raw = df
    /\ pc = "fill_email"
    /\ err = ""
    /\ csv = << >>
    /\ quality_metrics = << >>
    (* the training notebook is not open *)
    /\ tpc = "idle"
    /\ terr = [exception |-> "", at |-> ""]
    /\ epochs = 0
    /\ epoch = 0
    /\ it = 0
    /\ train_loader = 0
    /\ test_dataset = << >>
    /\ batch_size = 1
    /\ model = << >>
    /\ grad = << >>
    /\ optimizer = << >>
    /\ train_loss = 0
    /\ val_loss = 0
    /\ train_losses = << >>
    /\ val_losses = << >>
    /\ correct = 0
    /\ total = 0
    /\ accuracy = << >>
    /\ file = << >>
    /\ loaded_model = << >>
    /\ prediction = << >>
    /\ log = << >>
    /\ images = << >>
    /\ outputs = << >>

(* A cell that replaces the table and hands over to the next cell. *)
Cell(at, F(_), next) ==
    /\ pc = at
    /\ df' = F(df)
    /\ pc' = next
    /\ UNCHANGED <<raw, err, csv, quality_metrics, trainVars, forwardVars>>

(* A cell that raises: the notebook stops there. *)
Raise(at, exception) ==
    /\ pc = at
    /\ pc' = "error"
    /\ err' = exception
    /\ UNCHANGED <<raw, df, csv, quality_metrics, trainVars, forwardVars>>

FillEmailCell == Cell("fill_email", FillEmail, "fill_category")

FillCategoryCell == Cell("fill_category", FillCategory, "fill_satisfaction")

FillSatisfactionCell == Cell("fill_satisfaction", FillSatisfaction, "fill_age")

FillAgeCell == Cell("fill_age", FillAge, "fill_purchase")

FillPurchaseCell == Cell("fill_purchase", FillPurchase, "fix_age")

FixAgeCell == Cell("fix_age", FixAge, "fix_purchase")

FixPurchaseCell == Cell("fix_purchase", FixPurchase, "clip_age")

ClipAgeCell == Cell("clip_age", ClipAge, "round_purchase")

RoundPurchaseCell == Cell("round_purchase", RoundPurchase, "round_satisfaction")

RoundSatisfactionCell ==
    /\ pc = "round_satisfaction"
    /\ IF HasNull(Column(df, "satisfaction_score"))
       THEN Raise("round_satisfaction", "IntCastingNaNError")
       ELSE Cell("round_satisfaction", RoundSatisfaction, "purchase_month")

PurchaseMonthCell == Cell("purchase_month", PurchaseMonth, "purchase_category")

PurchaseCategoryCell ==
    /\ pc = "purchase_category"
    /\ IF QcutRaises(Column(df, "purchase_amount"))
       THEN Raise("purchase_category", "ValueError")
       ELSE Cell("purchase_category", PurchaseCategory, "age_group")

AgeGroupCell == Cell("age_group", AgeGroup, "export")

(* The export cell, the file system accepting every write. *)
ExportCell ==
    /\ pc = "export"
    /\ csv' = ToCsv(df)
    /\ pc' = "metrics"
    /\ UNCHANGED <<raw, df, err, quality_metrics, trainVars, forwardVars>>

(* The export cell when the file system fails (OSError, which IOError is an
   alias of): to_csv writes straight into the target file, so the lines
   written before the failure stay in it; none if already open() failed. *)
ExportFails ==
    /\ pc = "export"
    /\ \E written \in 0..(Len(ToCsv(df)) - 1) : csv' = SubSeq(ToCsv(df), 1, written)
    /\ pc' = "error"
    /\ err' = "OSError"
    /\ UNCHANGED <<raw, df, quality_metrics, trainVars, forwardVars>>

MetricsCell ==
    /\ pc = "metrics"
    /\ quality_metrics' = QualityMetrics(df)
    /\ pc' = "done"
    /\ UNCHANGED <<raw, df, err, csv, trainVars, forwardVars>>

CleanNext ==
    \/ FillEmailCell
    \/ FillCategoryCell
    \/ FillSatisfactionCell
    \/ FillAgeCell
    \/ FillPurchaseCell
    \/ FixAgeCell
    \/ FixPurchaseCell
    \/ ClipAgeCell
    \/ RoundPurchaseCell
    \/ RoundSatisfactionCell
    \/ PurchaseMonthCell
    \/ PurchaseCategoryCell
    \/ AgeGroupCell
    \/ ExportCell
    \/ ExportFails
    \/ MetricsCell

----------------------------------------------------------------------------
(* The training notebook: tensors, the network, the losses *)

(* A tensor is a function from its indices (from 0) to its entries.  The
   28 x 28 image is one feature and a hidden layer one unit wide; the output
   layer has its ten units. *)
Classes == 0..(NumClasses - 1)

Scalar(v) == [i \in {0} |-> v]

(* The names of NeuralNetwork's state_dict, in registration order. *)
Keys ==
    <<"fc1.weight", "fc1.bias", "fc2.weight", "fc2.bias", "fc3.weight", "fc3.bias">>

KeySet == {Keys[k] : k \in 1..Len(Keys)}

TZero(p) == [k \in DOMAIN p |-> [i \in DOMAIN p[k] |-> 0]]
TAdd(p, q) == [k \in DOMAIN p |-> [i \in DOMAIN p[k] |-> p[k][i] + q[k][i]]]
TSub(p, q) == [k \in DOMAIN p |-> [i \in DOMAIN p[k] |-> p[k][i] - q[k][i]]]
Sgn(v) == IF v > 0 THEN 1 ELSE IF v < 0 THEN -1 ELSE 0
TSgn(p) == [k \in DOMAIN p |-> [i \in DOMAIN p[k] |-> Sgn(p[k][i])]]

Params(w1, b1, w2, b2, w3, b3) ==
    [k \in KeySet |->
        CASE k = "fc1.weight" -> Scalar(w1)
          [] k = "fc1.bias" -> Scalar(b1)
          [] k = "fc2.weight" -> Scalar(w2)
          [] k = "fc2.bias" -> Scalar(b2)
          [] k = "fc3.weight" -> w3
          [] OTHER -> b3]

(* NeuralNetwork(): nn.Linear draws its parameters at random; two draws. *)
FreshParams ==
    {Params(1, 0, 1, 0, [c \in Classes |-> IF c % 2 = 1 THEN 1 ELSE -1],
            [c \in Classes |-> IF c = 0 THEN 2 ELSE 0]),
     Params(2, 1, -1, 3, [c \in Classes |-> IF c = 7 THEN 1 ELSE 0],
            [c \in Classes |-> IF c = 9 THEN 1 ELSE 0])}

(* A new module is in training mode. *)
NeuralNetwork(p) == [params |-> p, training |-> TRUE]

(* model.train(): the module's mode flag is set. *)
Train(m) == [m EXCEPT !.training = TRUE]

(* Mutant of Eval: the call leaves the mode flag as it is. *)
EvalSkipped(m) == m

(* model.eval(): the module's mode flag is cleared. *)
Eval(m) == [m EXCEPT !.training = FALSE]

Relu(v) == IF v > 0 THEN v ELSE 0

(* NeuralNetwork.forward on one sample: the ten logits. *)
Forward(p, x) ==
    LET h1 == Relu(p["fc1.weight"][0] * x + p["fc1.bias"][0])
        h2 == Relu(p["fc2.weight"][0] * h1 + p["fc2.bias"][0])
    IN  [c \in Classes |-> p["fc3.weight"][c] * h2 + p["fc3.bias"][c]]

(* The side of an MNIST image; forward flattens to ImageSide * ImageSide. *)
ImageSide == 28

InFeatures == ImageSide * ImageSide

(* The number of elements of a tensor of the given shape. *)
Numel(shape) ==
    LET RECURSIVE Prod(_)
        Prod(k) == IF k = 0 THEN 1 ELSE shape[k] * Prod(k - 1)
    IN  Prod(Len(shape))

(* x.view(-1, 28 * 28) raises RuntimeError exactly when the number of
   elements is no multiple of 784; the shape itself is not looked at. *)
ViewRaises(shape) == Numel(shape) % InFeatures # 0

(* The number of rows of x.view(-1, 28 * 28). *)
ViewRows(shape) == Numel(shape) \div InFeatures

(* model(images): the view, then the layers on every row (all elements of
   the tensor hold the value x). *)
ForwardPass(p, tensor) ==
    IF ViewRaises(tensor.shape)
    THEN [raised |-> "RuntimeError", logits |-> << >>]
    ELSE [raised |-> "",
          logits |-> [r \in 1..ViewRows(tensor.shape) |-> Forward(p, tensor.x)]]

(* torch.max(outputs, 1)[1] on one sample: the first index of the largest logit. *)
ArgMax(out) ==
    CHOOSE c \in Classes :
        /\ \A d \in Classes : out[d] <= out[c]
        /\ \A d \in Classes : d < c => out[d] < out[c]

(* nn.CrossEntropyLoss on one sample, as the margin by which the largest
   logit exceeds the logit of the true label (0 when the label wins). *)
SampleLoss(out, label) == out[ArgMax(out)] - out[label]

SeqSum(seq) ==
    LET RECURSIVE Acc(_)
        Acc(k) == IF k = 0 THEN 0 ELSE seq[k] + Acc(k - 1)
    IN  Acc(Len(seq))

(* criterion(model(images), labels).item(): the mean over the batch. *)
Criterion(p, batch) ==
    SeqSum([i \in 1..Len(batch) |-> SampleLoss(Forward(p, batch[i].x), batch[i].label)])
        \div Len(batch)

(* Mutant of NumBatches: a short last batch is dropped (drop_last=True). *)
NumBatchesDropLast(ds, bs) == Len(ds) \div bs

(* len(DataLoader(dataset, batch_size)): the last batch may be short. *)
NumBatches(ds, bs) == (Len(ds) + bs - 1) \div bs

(* The j-th batch (from 1) of DataLoader(dataset, batch_size, shuffle=False). *)
Batch(ds, bs, j) == SubSeq(ds, (j - 1) * bs + 1, Min2(j * bs, Len(ds)))

(* a / b in Python: the quotient as a fraction; b = 0 raises. *)
(* Mutant of Quotient: the sum is recorded, not the average. *)
QuotientUndivided(a, b) == [num |-> a, den |-> 1]

Quotient(a, b) == [num |-> a, den |-> b]

(* f"{q:.2f}": the quotient to two decimals, as a number of hundredths. *)
Format2f(q) == DivRound(100 * q.num, q.den)

(* Mutant of ZeroGrad: the gradients are not cleared. *)
ZeroGradSkipped(g) == g

(* optimizer.zero_grad() *)
ZeroGrad(g) == TZero(g)

(* loss.backward(): the gradient of the batch is added to .grad. *)
Backward(g, batchGrad) == TAdd(g, batchGrad)

(* optimizer.step(), Adam's state: one more step, the first moment takes the
   gradient in. *)
AdamState(opt, g) == [t |-> opt.t + 1, m |-> TAdd(opt.m, g)]

(* optimizer.step(), the parameters: a step against the sign of the moment. *)
AdamUpdate(p, opt) == TSub(p, TSgn(opt.m))

(* (predicted == labels).sum().item() on one batch *)
CorrectIn(p, batch) ==
    Cardinality({i \in 1..Len(batch) : ArgMax(Forward(p, batch[i].x)) = batch[i].label})

(* model.state_dict(): an ordered mapping from name to tensor. *)
StateDict(m) == [k \in 1..Len(Keys) |-> <<Keys[k], m.params[Keys[k]]>>]

(* torch.save(state_dict, path): each entry as its name, its size and its
   entries in index order. *)
TensorBytes(tensor) ==
    [i \in 1..Cardinality(DOMAIN tensor) |-> tensor[i - 1]]

Save(sd) == [k \in 1..Len(sd) |-> <<sd[k][1], TensorBytes(sd[k][2])>>]

(* torch.load(path): the mapping from name to tensor read back. *)
Load(bytes) ==
    [name \in {bytes[k][1] : k \in 1..Len(bytes)} |->
        LET k == CHOOSE j \in 1..Len(bytes) : bytes[j][1] = name
        IN  [i \in 0..(Len(bytes[k][2]) - 1) |-> bytes[k][2][i + 1]]]

(* load_state_dict(sd) (strict): the names must be the module's own. *)
LoadStateDictRaises(m, sd) == DOMAIN sd # DOMAIN m.params

(* Mutant of LoadStateDict: only the weights are copied, the biases stay as
   the fresh model drew them. *)
LoadStateDictWeightsOnly(m, sd) ==
    [m EXCEPT !.params =
        [k \in DOMAIN m.params |->
            IF k \in {"fc1.weight", "fc2.weight", "fc3.weight"} THEN sd[k]
            ELSE m.params[k]]]

LoadStateDict(m, sd) == [m EXCEPT !.params = [k \in DOMAIN m.params |-> sd[k]]]

----------------------------------------------------------------------------
(* The inputs of the training notebook *)

MaxEpochs == 2
MaxTrainBatches == 2
MaxTestSamples == 3
MaxBatchSize == 2

(* Test samples: the image (one feature) and its label. *)
TestSamples == {[x |-> 1, label |-> 0], [x |-> 3, label |-> 7]}

(* A training batch, as shuffled into the loader: its gradient and its loss.
   The shuffled train_loader holds at least one batch: DataLoader(shuffle=True)
   refuses an empty dataset when it is built, before the loop. *)
UnitGrad(key, index, v) ==
    [k \in KeySet |->
        [i \in (IF k \in {"fc3.weight", "fc3.bias"} THEN Classes ELSE {0}) |->
            IF k = key /\ i = index THEN v ELSE 0]]

TrainBatches ==
    {[g |-> UnitGrad("fc1.weight", 0, 0), loss |-> 0],
     [g |-> UnitGrad("fc1.weight", 0, 1), loss |-> 3],
     [g |-> UnitGrad("fc3.bias", 7, -1), loss |-> 1]}

TrainInit ==
    /\ tpc = "Uninitialized"
    /\ terr = [exception |-> "", at |-> ""]
    /\ epochs \in 0..MaxEpochs
    /\ epoch = 0
    /\ it = 0
    /\ train_loader \in 1..MaxTrainBatches
    /\ \E n \in 0..MaxTestSamples : test_dataset \in [1..n -> TestSamples]
    /\ batch_size \in 1..MaxBatchSize
    /\ \E p \in FreshParams :
          /\ model = NeuralNetwork(p)
          /\ grad = TZero(p)
          /\ optimizer = [t |-> 0, m |-> TZero(p)]
    /\ train_loss = 0
    /\ val_loss = 0
    /\ train_losses = << >>
    /\ val_losses = << >>
    /\ correct = 0
    /\ total = 0
    /\ accuracy = << >>
    /\ file = << >>
    /\ loaded_model = << >>
    /\ prediction = << >>
    /\ log = << >>
    /\ images = << >>
    /\ outputs = << >>
    (* the cleaning notebook is not open *)
    /\ df = << >>
    /\ raw = << >>
    /\ pc = "idle"
    /\ err = ""
    /\ csv = << >>
    /\ quality_metrics = << >>

----------------------------------------------------------------------------
(* The training loop *)

(* Mutant of RangeHasNext: the last value of the range is left out. *)
RangeHasNextButLast(e, n) == e + 1 < n - 1

(* for epoch in range(epochs): whether another value follows e, and which. *)
RangeHasNext(e, n) == e + 1 < n

(* Mutant of RangeNext: every second value is skipped. *)
RangeNextSkips(e) == e + 2

RangeNext(e) == e + 1

(* Mutant of Crash: the loop is started again after the exception. *)
CrashRetried(exception) ==
    /\ tpc' = "Uninitialized"
    /\ terr' = [exception |-> exception, at |-> tpc]

(* The exception ends the notebook. *)
Crash(exception) ==
    /\ tpc' = "Crashed"
    /\ terr' = [exception |-> exception, at |-> tpc]

(* for epoch in range(epochs): the first iteration, or none. *)
StartLoop ==
    /\ tpc = "Uninitialized"
    /\ IF ~RangeHasNext(-1, epochs)
       THEN /\ tpc' = "Done"
            /\ UNCHANGED <<model, train_loss>>
       ELSE /\ tpc' = "Training"
            /\ model' = Train(model)
            /\ train_loss' = 0
    /\ epoch' = RangeNext(-1)
    /\ it' = 0
    /\ UNCHANGED <<cleanVars, forwardVars, terr, epochs, train_loader, test_dataset, batch_size,
                   grad, optimizer, val_loss, train_losses, val_losses, correct,
                   total, accuracy, file, loaded_model, prediction, log>>

(* One training batch: zero_grad, forward, loss, backward, step, accumulate. *)
TrainBatch ==
    /\ tpc = "Training"
    /\ it < train_loader
    /\ \E b \in TrainBatches :
          LET g == Backward(ZeroGrad(grad), b.g)
              opt == AdamState(optimizer, g)
          IN  /\ grad' = g
              /\ optimizer' = opt
              /\ model' = [model EXCEPT !.params = AdamUpdate(model.params, opt)]
              /\ train_loss' = train_loss + b.loss
              /\ log' = Append(log, [phase |-> "train", epoch |-> epoch + 1,
                                     batch |-> it + 1, g |-> b.g])
    /\ it' = it + 1
    /\ UNCHANGED <<cleanVars, forwardVars, tpc, terr, epochs, epoch, train_loader, test_dataset,
                   batch_size, val_loss, train_losses, val_losses, correct, total,
                   accuracy, file, loaded_model, prediction>>

(* The training batches are exhausted: record the average, switch to eval. *)
EndTraining ==
    /\ tpc = "Training"
    /\ it = train_loader
    /\ IF train_loader = 0
       THEN /\ Crash("ZeroDivisionError")
            /\ UNCHANGED <<train_losses, model, val_loss, it>>
       ELSE /\ train_losses' = Append(train_losses, Quotient(train_loss, train_loader))
            /\ model' = Eval(model)
            /\ val_loss' = 0
            /\ it' = 0
            /\ tpc' = "Validating"
            /\ UNCHANGED terr
    /\ UNCHANGED <<cleanVars, forwardVars, epochs, epoch, train_loader, test_dataset, batch_size,
                   grad, optimizer, train_loss, val_losses, correct, total,
                   accuracy, file, loaded_model, prediction, log>>

(* One validation batch under torch.no_grad(): forward and loss only. *)
ValBatch ==
    /\ tpc = "Validating"
    /\ it < NumBatches(test_dataset, batch_size)
    /\ val_loss' = val_loss + Criterion(model.params, Batch(test_dataset, batch_size, it + 1))
    /\ log' = Append(log, [phase |-> "val", epoch |-> epoch + 1, batch |-> it + 1,
                           g |-> TZero(grad)])
    /\ it' = it + 1
    /\ UNCHANGED <<cleanVars, forwardVars, tpc, terr, epochs, epoch, train_loader, test_dataset,
                   batch_size, model, grad, optimizer, train_loss, train_losses,
                   val_losses, correct, total, accuracy, file, loaded_model,
                   prediction>>

(* The validation batches are exhausted: record the average, print the epoch's
   line, and go to the next epoch or leave the loop. *)
EndValidation ==
    /\ tpc = "Validating"
    /\ it = NumBatches(test_dataset, batch_size)
    /\ IF NumBatches(test_dataset, batch_size) = 0
       THEN /\ Crash("ZeroDivisionError")
            /\ UNCHANGED <<val_losses, epoch, model, train_loss, it>>
       ELSE /\ val_losses' =
                  Append(val_losses,
                         Quotient(val_loss, NumBatches(test_dataset, batch_size)))
            /\ UNCHANGED terr
            /\ IF RangeHasNext(epoch, epochs)
               THEN /\ epoch' = RangeNext(epoch)
                    /\ tpc' = "Training"
                    /\ model' = Train(model)
                    /\ train_loss' = 0
                    /\ it' = 0
               ELSE /\ tpc' = "Done"
                    /\ UNCHANGED <<epoch, model, train_loss, it>>
    /\ UNCHANGED <<cleanVars, forwardVars, epochs, train_loader, test_dataset, batch_size, grad,
                   optimizer, val_loss, train_losses, correct, total, accuracy,
                   file, loaded_model, prediction, log>>

LoopStep == StartLoop \/ TrainBatch \/ EndTraining \/ ValBatch \/ EndValidation

----------------------------------------------------------------------------
(* After the loop: evaluate_model, save, load, predict *)

(* evaluate_model(model, test_loader) is entered. *)
EvaluateCall ==
    /\ tpc = "Done"
    /\ tpc' = "Evaluating"
    /\ model' = Eval(model)
    /\ correct' = 0
    /\ total' = 0
    /\ it' = 0
    /\ UNCHANGED <<cleanVars, forwardVars, terr, epochs, epoch, train_loader, test_dataset,
                   batch_size, grad, optimizer, train_loss, val_loss, train_losses,
                   val_losses, accuracy, file, loaded_model, prediction, log>>

(* One batch of evaluate_model under torch.no_grad(). *)
EvalBatch ==
    /\ tpc = "Evaluating"
    /\ it < NumBatches(test_dataset, batch_size)
    /\ total' = total + Len(Batch(test_dataset, batch_size, it + 1))
    /\ correct' = correct + CorrectIn(model.params, Batch(test_dataset, batch_size, it + 1))
    /\ it' = it + 1
    /\ UNCHANGED <<cleanVars, forwardVars, tpc, terr, epochs, epoch, train_loader, test_dataset,
                   batch_size, model, grad, optimizer, train_loss, val_loss,
                   train_losses, val_losses, accuracy, file, loaded_model,
                   prediction, log>>

(* print(f"Accuracy: {100 * correct / total:.2f}%") *)
EvalPrint ==
    /\ tpc = "Evaluating"
    /\ it = NumBatches(test_dataset, batch_size)
    /\ IF total = 0
       THEN /\ Crash("ZeroDivisionError")
            /\ UNCHANGED accuracy
       ELSE /\ accuracy' = Some(Format2f(Quotient(100 * correct, total)))
            /\ tpc' = "Save"
            /\ UNCHANGED terr
    /\ UNCHANGED <<cleanVars, forwardVars, epochs, epoch, it, train_loader, test_dataset,
                   batch_size, model, grad, optimizer, train_loss, val_loss,
                   train_losses, val_losses, correct, total, file, loaded_model,
                   prediction, log>>

(* torch.save(model.state_dict(), "mnist_model.pth") *)
SaveCell ==
    /\ tpc = "Save"
    /\ file' = Save(StateDict(model))
    /\ tpc' = "Load"
    /\ UNCHANGED <<cleanVars, forwardVars, terr, epochs, epoch, it, train_loader, test_dataset,
                   batch_size, model, grad, optimizer, train_loss, val_loss,
                   train_losses, val_losses, correct, total, accuracy,
                   loaded_model, prediction, log>>

(* loaded_model = NeuralNetwork(); loaded_model.load_state_dict(torch.load(..)) *)
LoadCell ==
    /\ tpc = "Load"
    /\ \E p \in FreshParams :
          IF LoadStateDictRaises(NeuralNetwork(p), Load(file))
          THEN /\ Crash("RuntimeError")
               /\ loaded_model' = Some(NeuralNetwork(p))
          ELSE /\ loaded_model' = Some(LoadStateDict(NeuralNetwork(p), Load(file)))
               /\ tpc' = "Predict"
               /\ UNCHANGED terr
    /\ UNCHANGED <<cleanVars, forwardVars, epochs, epoch, it, train_loader, test_dataset,
                   batch_size, model, grad, optimizer, train_loss, val_loss,
                   train_losses, val_losses, correct, total, accuracy, file,
                   prediction, log>>

(* The prediction cell: model.eval(), one forward pass on test_dataset[0]. *)
PredictCell ==
    /\ tpc = "Predict"
    /\ IF Len(test_dataset) = 0
       THEN /\ Crash("IndexError")
            /\ UNCHANGED prediction
       ELSE /\ prediction' = Some(ArgMax(Forward(model.params, test_dataset[1].x)))
            /\ tpc' = "End"
            /\ UNCHANGED terr
    /\ model' = Eval(model)
    /\ UNCHANGED <<cleanVars, forwardVars, epochs, epoch, it, train_loader, test_dataset,
                   batch_size, grad, optimizer, train_loss, val_loss, train_losses,
                   val_losses, correct, total, accuracy, file, loaded_model, log>>

TrainNext ==
    \/ StartLoop
    \/ TrainBatch
    \/ EndTraining
    \/ ValBatch
    \/ EndValidation
    \/ EvaluateCall
    \/ EvalBatch
    \/ EvalPrint
    \/ SaveCell
    \/ LoadCell
    \/ PredictCell

----------------------------------------------------------------------------
(* Specifications: each notebook runs on its own *)

Next == CleanNext

Spec == Init /\ [][Next]_vars

TrainSpec == TrainInit /\ [][TrainNext]_vars

(* A notebook cell that can run does run. *)
TrainFairSpec == TrainSpec /\ WF_vars(TrainNext)


----------------------------------------------------------------------------
(* The feature-derivation cells on cleaned tables of up to MaxFeatureRows
   rows: the purchase amounts are drawn from Amounts, the ages run through
   EdgeAges, two rows for each age. *)

MaxFeatureRows == 5

(* Repaired and rounded purchase amounts (whole cents, in thousandths). *)
Amounts == {Dollars(100), Dollars(200) + 500, Dollars(300), Dollars(400) + 10,
            Dollars(500)}

(* Clipped ages (quarter years) at and next to the bin edges of age_group. *)
EdgeAges ==
    <<Years(18), Years(25), Years(25) + 1, Years(35), Years(35) + 2, Years(50),
      Years(50) + 1, Years(65), Years(65) + 3, Years(90)>>

(* Row i of a cleaned table, before the derived columns are filled. *)
CleanedRow(i, age, amount) ==
    [customer_id |-> Some(i),
     name |-> Some(<<"Customer", i>>),
     age |-> Some(age),
     email |-> Some(<<"customer", i, "@email.com">>),
     purchase_amount |-> Some(amount),
     purchase_date |-> Some([year |-> 2023, month |-> 1, day |-> i]),
     category |-> Some(Cyc(BaseCategories, i)),
     satisfaction_score |-> Some(Score(Cyc(BaseScores, i))),
     phone_number |-> Some(<<"+1-555-", i>>),
     purchase_month |-> Some(1),
     purchase_category |-> Null,
     age_group |-> Null]

CleanedTable(n, amount, k) ==
    [i \in 1..n |-> CleanedRow(i, Cyc(EdgeAges, 2 * k - 1 + (i - 1) \div 2), amount[i])]

FeatureInit ==
    /\ \E n \in 1..MaxFeatureRows : \E amount \in [1..n -> Amounts] :
          \E k \in 1..(Len(EdgeAges) \div 2) : df = CleanedTable(n, amount, k)
    /\ raw = df
    /\ pc = "purchase_category"
    /\ err = ""
    /\ csv = << >>
    /\ quality_metrics = << >>
    (* the training notebook is not open *)
    /\ tpc = "idle"
    /\ terr = [exception |-> "", at |-> ""]
    /\ epochs = 0
    /\ epoch = 0
    /\ it = 0
    /\ train_loader = 0
    /\ test_dataset = << >>
    /\ batch_size = 1
    /\ model = << >>
    /\ grad = << >>
    /\ optimizer = << >>
    /\ train_loss = 0
    /\ val_loss = 0
    /\ train_losses = << >>
    /\ val_losses = << >>
    /\ correct = 0
    /\ total = 0
    /\ accuracy = << >>
    /\ file = << >>
    /\ loaded_model = << >>
    /\ prediction = << >>
    /\ log = << >>
    /\ images = << >>
    /\ outputs = << >>

FeatureNext == PurchaseCategoryCell \/ AgeGroupCell

FeatureSpec == FeatureInit /\ [][FeatureNext]_vars


----------------------------------------------------------------------------
(* The forward pass on tensors of any shape of up to MaxRank dimensions *)

MaxRank == 4

Dims == {1, 2, 14, ImageSide, 2 * ImageSide}

Shapes == UNION {[1..r -> Dims] : r \in 1..MaxRank}

ForwardInit ==
    /\ \E shape \in Shapes : \E x \in {1, 3} : images = [shape |-> shape, x |-> x]
    /\ \E p \in FreshParams : model = NeuralNetwork(p)
    /\ outputs = << >>
    /\ tpc = "idle"
    /\ terr = [exception |-> "", at |-> ""]
    /\ epochs = 0
    /\ epoch = 0
    /\ it = 0
    /\ train_loader = 0
    /\ test_dataset = << >>
    /\ batch_size = 1
    /\ grad = << >>
    /\ optimizer = << >>
    /\ train_loss = 0
    /\ val_loss = 0
    /\ train_losses = << >>
    /\ val_losses = << >>
    /\ correct = 0
    /\ total = 0
    /\ accuracy = << >>
    /\ file = << >>
    /\ loaded_model = << >>
    /\ prediction = << >>
    /\ log = << >>
    (* the cleaning notebook is not open *)
    /\ df = << >>
    /\ raw = << >>
    /\ pc = "idle"
    /\ err = ""
    /\ csv = << >>
    /\ quality_metrics = << >>

(* outputs = model(images) *)
ForwardCall ==
    /\ images # << >>
    /\ outputs = << >>
    /\ outputs' = ForwardPass(model.params, images)
    /\ UNCHANGED <<cleanVars, trainVars, images>>

ForwardNext == ForwardCall

ForwardSpec == ForwardInit /\ [][ForwardNext]_vars


----------------------------------------------------------------------------
(* Properties of the cleaning notebook *)

NumericFilled == {"satisfaction_score", "age", "purchase_amount"}

ColumnSet == {Columns[k] : k \in 1..Len(Columns)}

NoNullIn(t, col) == \A i \in 1..Len(t) : ~IsNull(t[i][col])

AllNull(t, col) == \A i \in 1..Len(t) : IsNull(t[i][col])

AgeInRange(t) ==
    \A i \in 1..Len(t) :
        ~IsNull(t[i].age) =>
            Years(AgeLower) <= Val(t[i].age) /\ Val(t[i].age) <= Years(AgeUpper)

PurchaseNonNegative(t) ==
    \A i \in 1..Len(t) : ~IsNull(t[i].purchase_amount) => Val(t[i].purchase_amount) >= 0

(* The cells after the feature derivation: the cleaning rule sequence is over. *)
CleaningOver == pc \in {"export", "metrics", "done"}

(* The repair step is over and no constraint has been applied yet. *)
RepairOver == pc = "clip_age"

(* C1: at the end of the cleaning rule sequence no cell of any column, the
   derived ones included, is null, every age lies in [18, 90] and every
   purchase_amount is non-negative, for every input table. *)
C1_CleanedTableValid ==
    CleaningOver =>
        /\ \A col \in ColumnSet : NoNullIn(df, col)
        /\ AgeInRange(df)
        /\ PurchaseNonNegative(df)

(* C2: right after the repair step and before any clamping, the three
   numerically filled columns hold no null, no age is outside 18..90 and no
   purchase_amount is negative. *)
C2_RepairedColumnsValid ==
    RepairOver =>
        /\ \A col \in NumericFilled : NoNullIn(df, col)
        /\ AgeInRange(df)
        /\ PurchaseNonNegative(df)

(* C3: a column that is entirely null when it is imputed makes the repair
   step fail with a DataQualityError: the step never completes with such a
   column left as it is. *)
C3_AllNullColumnRaises ==
    \A col \in NumericFilled :
        (pc \notin {"fill_email", "fill_category", "fill_satisfaction", "fill_age",
                    "fill_purchase", "fix_age", "fix_purchase"}
         /\ AllNull(df, col))
            => err = "DataQualityError"

Idempotent(F(_), t) == F(F(t)) = F(t)

ClipAgeRan ==
    pc \in {"round_purchase", "round_satisfaction", "purchase_month",
            "purchase_category", "age_group", "export", "metrics", "done"}

RoundPurchaseRan ==
    pc \in {"round_satisfaction", "purchase_month", "purchase_category", "age_group",
            "export", "metrics", "done"}

RoundSatisfactionRan ==
    pc \in {"purchase_month", "purchase_category", "age_group", "export", "metrics",
            "done"}

(* C9: each of the three constraint operations is idempotent: once the age
   clamp, the 2-decimal rounding or the integer rounding has run, running it
   again changes no value of the table (and, on any table the notebook holds,
   applying one twice gives what applying it once gives). *)
C9_ConstraintsIdempotent ==
    /\ ClipAgeRan => ClipAge(df) = df
    /\ RoundPurchaseRan => RoundPurchase(df) = df
    /\ RoundSatisfactionRan => RoundSatisfaction(df) = df
    /\ pc # "idle" =>
          /\ Idempotent(ClipAge, df)
          /\ Idempotent(RoundPurchase, df)
          /\ Idempotent(RoundSatisfaction, df)

(* C9's case: all three constraints have run, and each of them changed a
   value of the repaired table. *)
C9_Witness ==
    /\ pc = "purchase_month"
    /\ ClipAge(Repair(raw)) # Repair(raw)
    /\ RoundPurchase(Repair(raw)) # Repair(raw)
    /\ RoundSatisfaction(Repair(raw)) # Repair(raw)

(* C10: the age clamp, the purchase_amount rounding and the
   satisfaction_score rounding commute: on the repaired table the six orders
   give the same table. *)
C10_ConstraintsCommute ==
    RepairOver =>
        LET abc == RoundSatisfaction(RoundPurchase(ClipAge(df)))
        IN  /\ RoundPurchase(RoundSatisfaction(ClipAge(df))) = abc
            /\ RoundSatisfaction(ClipAge(RoundPurchase(df))) = abc
            /\ ClipAge(RoundSatisfaction(RoundPurchase(df))) = abc
            /\ RoundPurchase(ClipAge(RoundSatisfaction(df))) = abc
            /\ ClipAge(RoundPurchase(RoundSatisfaction(df))) = abc

(* C10's case: a repaired table of which each of the three operations
   changes a value. *)
C10_Witness ==
    /\ RepairOver
    /\ ClipAge(df) # df
    /\ RoundPurchase(df) # df
    /\ RoundSatisfaction(df) # df

----------------------------------------------------------------------------
(* Properties of the training notebook *)

TestBatches == NumBatches(test_dataset, batch_size)

(* The batches of one epoch, and the k-th batch (from 1) the loop is due to
   process: all training batches of epoch 1, its validation batches, then
   epoch 2, ... *)
PerEpoch == train_loader + TestBatches

Scheduled(k) ==
    LET e == (k - 1) \div PerEpoch
        r == ((k - 1) % PerEpoch) + 1
    IN  IF r <= train_loader
        THEN [phase |-> "train", epoch |-> e + 1, batch |-> r]
        ELSE [phase |-> "val", epoch |-> e + 1, batch |-> r - train_loader]

Processed(k) == [phase |-> log[k].phase, epoch |-> log[k].epoch, batch |-> log[k].batch]

(* The loop is over: Done has been reached (the cells after it may have run). *)
LoopDone ==
    \/ tpc \in {"Done", "Evaluating", "Save", "Load", "Predict", "End"}
    \/ tpc = "Crashed" /\ terr.at \notin {"Uninitialized", "Training", "Validating"}

(* The states of the loop in the order the claim gives them: Uninitialized is
   0, Training(e) is 2e - 1, Validating(e) is 2e, Done is 2 epochs + 1. *)
Rank ==
    CASE tpc = "Uninitialized" -> 0
      [] tpc = "Training" -> 2 * (epoch + 1) - 1
      [] tpc = "Validating" -> 2 * (epoch + 1)
      [] OTHER -> 2 * epochs + 1

InLoop == tpc \in {"Uninitialized", "Training", "Validating"}

(* C4: the loop goes through Uninitialized, Training(1), Validating(1),
   Training(2), ..., Validating(epochs), Done in this order, one state at a
   time, and the batches it has processed are at every moment the first ones
   of the schedule: within an epoch every training batch before any
   validation batch, every validation batch of an epoch before the next
   epoch's first training batch, the epochs in increasing order, none skipped
   and none repeated. *)
C4_Schedule ==
    tpc # "idle" =>
        /\ \A k \in 1..Len(log) : Processed(k) = Scheduled(k)
        /\ tpc = "Uninitialized" => log = << >>
        /\ tpc = "Training" =>
              /\ epoch < epochs /\ it <= train_loader
              /\ Len(log) = epoch * PerEpoch + it
        /\ tpc = "Validating" =>
              /\ epoch < epochs /\ it <= TestBatches
              /\ Len(log) = epoch * PerEpoch + train_loader + it
        /\ LoopDone => Len(log) = epochs * PerEpoch

C4_LoopOrder ==
    /\ []C4_Schedule
    /\ [][InLoop => (Rank' \in {Rank, Rank + 1} \/ tpc' = "Crashed")]_vars

(* C4's case: two epochs of two training and two validation batches each
   have been run to Done. *)
C4_Witness ==
    /\ tpc = "Done"
    /\ epochs = 2 /\ train_loader = 2 /\ TestBatches = 2
    /\ Len(log) = 8

(* At Done exactly the configured number of epochs have each completed their
   training and their validation phase. *)
AllEpochsCompleted ==
    /\ Len(train_losses) = epochs
    /\ Len(val_losses) = epochs
    /\ Len(log) = epochs * PerEpoch
    /\ \A e \in 1..epochs :
          /\ Cardinality({k \in 1..Len(log) :
                             log[k].phase = "train" /\ log[k].epoch = e}) = train_loader
          /\ Cardinality({k \in 1..Len(log) :
                             log[k].phase = "val" /\ log[k].epoch = e}) = TestBatches

(* C5, as claimed: for any epoch count and any finite train and validation
   batch sets the loop reaches Done (it is never stuck before Done), and it is
   at Done only after exactly the configured number of epochs. *)
C5_AlwaysReachesDone ==
    tpc # "idle" =>
        /\ LoopDone \/ ENABLED LoopStep
        /\ LoopDone => AllEpochsCompleted

(* C5, amended: with a train loader and a test loader that each hold at least
   one batch, the loop eventually reaches Done, whatever the epoch count and
   the losses, and it is at Done only after exactly the configured number of
   epochs have each completed both phases. *)
C5_ReachesDoneIfNonEmpty ==
    /\ (train_loader > 0 /\ TestBatches > 0) => <>LoopDone
    /\ [](LoopDone => AllEpochsCompleted)

(* C5's case: the configured two epochs have run to Done although the first
   epoch's average training loss was already zero. *)
C5_Witness ==
    /\ tpc = "Done"
    /\ epochs = 2
    /\ Len(train_losses) = 2
    /\ train_losses[1].num = 0
    /\ val_losses[1].num > 0

(* The gradients of the training batches processed so far, in order. *)
TrainEntries == SelectSeq(log, LAMBDA entry : entry.phase = "train")

GradSum(entries) ==
    LET RECURSIVE Acc(_)
        Acc(k) == IF k = 0 THEN TZero(model.params)
                  ELSE TAdd(Acc(k - 1), entries[k].g)
    IN  Acc(Len(entries))

(* A step that processes one training batch. *)
IsTrainBatchStep == tpc = "Training" /\ tpc' = "Training" /\ it' = it + 1

(* C6: the parameters and the optimizer state change only in a
   training-batch step and there exactly once per batch (the optimizer has
   taken as many steps as training batches were processed, each on the
   gradient of its own batch alone, nothing carried over from an earlier
   batch); validation batches, evaluate_model's batches, save, load and the
   single-sample prediction leave them unchanged. *)
C6_UpdatesOnlyInTraining ==
    /\ [][(model.params # model'.params \/ optimizer # optimizer')
             => IsTrainBatchStep]_vars
    /\ [][IsTrainBatchStep => optimizer'.t = optimizer.t + 1]_vars
    /\ [](tpc # "idle" =>
             /\ optimizer.t = Len(TrainEntries)
             /\ optimizer.m = GradSum(TrainEntries)
             /\ TrainEntries # << >> => grad = TrainEntries[Len(TrainEntries)].g)

(* C6's case: after four training batches with a gradient, validation,
   evaluation, save, load and prediction have all run. *)
C6_Witness ==
    /\ tpc = "End"
    /\ optimizer.t = 4
    /\ \A k \in 1..Len(TrainEntries) : TrainEntries[k].g # TZero(model.params)
    /\ TestBatches = 2

(* evaluate_model has returned or raised. *)
EvaluateOver ==
    \/ tpc \in {"Save", "Load", "Predict", "End"}
    \/ tpc = "Crashed" /\ terr.at \in {"Evaluating", "Load", "Predict"}

EvaluateCounts ==
    /\ terr.at # "Evaluating"
    /\ total = Len(test_dataset)
    /\ 0 <= correct /\ correct <= total
    /\ correct = Cardinality({i \in 1..Len(test_dataset) :
                    ArgMax(Forward(model.params, test_dataset[i].x))
                        = test_dataset[i].label})
    /\ accuracy # << >>
    /\ 0 <= Val(accuracy) /\ Val(accuracy) <= 100 * 100

(* C7, as claimed: on a test set of any size N and any batching of it,
   evaluate_model ends with total = N, 0 <= correct <= total, and reports an
   accuracy equal to 100 * correct / total, which lies in [0, 100], correct
   being the number of samples whose arg-max class is the true label. *)
C7_EvaluateReports ==
    EvaluateOver =>
        /\ EvaluateCounts
        /\ Val(accuracy) * total = 100 * (100 * correct)

(* C7, amended: on a test set of size N >= 1 and any batching of it,
   evaluate_model ends with total = N, 0 <= correct <= total, and prints
   100 * correct / total rounded to two decimals, which lies in [0, 100],
   correct being the number of samples whose arg-max class is the true
   label. *)
C7_EvaluateReportsNonEmpty ==
    (EvaluateOver /\ Len(test_dataset) >= 1) =>
        /\ EvaluateCounts
        /\ Val(accuracy) = DivRound(100 * (100 * correct), total)

(* C7's case: three samples in batches of two (the last batch is short), some
   but not all of them classified correctly. *)
C7_Witness ==
    /\ tpc = "Save"
    /\ Len(test_dataset) = 3 /\ batch_size = 2
    /\ 0 < correct /\ correct < total

(* Example inputs of the forward pass. *)
ExampleInputs == 0..4

(* C8: once the saved file has been loaded into a freshly constructed model,
   that model holds exactly the parameters the model had when it was saved
   (all three weight/bias pairs), and on every input its output is the output
   of the saved model. *)
C8_SaveLoadRoundTrip ==
    loaded_model # << >> /\ tpc # "Crashed" =>
        /\ Val(loaded_model).params = model.params
        /\ \A x \in ExampleInputs :
              Forward(Val(loaded_model).params, x) = Forward(model.params, x)

(* C8's case: a trained model (its parameters are no fresh draw) has been
   saved and loaded, and the prediction cell has run. *)
C8_Witness ==
    /\ tpc = "End"
    /\ loaded_model # << >>
    /\ model.params \notin FreshParams
    /\ optimizer.t > 0

----------------------------------------------------------------------------
(* Properties of the derived features *)

PurchaseCategoryRan ==
    pc \in {"age_group", "export", "metrics", "done"} \/ err = "ValueError"

(* No two records hold the same purchase_amount, and none holds NaN. *)
NoTies(t) ==
    /\ \A i \in 1..Len(t) : ~IsNull(t[i].purchase_amount)
    /\ \A i, j \in 1..Len(t) : i # j => t[i].purchase_amount # t[j].purchase_amount

LabelSet == {PurchaseLabels[k] : k \in 1..Len(PurchaseLabels)}

CountOf(label) ==
    Cardinality({i \in 1..Len(df) : df[i].purchase_category = Some(label)})

EqualFrequency ==
    /\ err = ""
    /\ \A i \in 1..Len(df) : \E label \in LabelSet : df[i].purchase_category = Some(label)
    /\ \A label \in LabelSet : CountOf(label) >= 1
    /\ \A a, b \in LabelSet : CountOf(a) - CountOf(b) <= 1

(* C11, as claimed: on a table whose purchase_amount values are pairwise
   distinct the bucketing gives every record exactly one of Low, Medium,
   High, Premium, uses all four labels, and the counts of any two labels
   differ by at most one. *)
C11_EqualFrequency == (PurchaseCategoryRan /\ NoTies(df)) => EqualFrequency

(* C11, amended: the same on a table of at least four records (the number of
   labels) whose purchase_amount values are pairwise distinct. *)
C11_EqualFrequencyFromFour ==
    (PurchaseCategoryRan /\ NoTies(df) /\ Len(df) >= NumQuantiles) => EqualFrequency

(* C11's case: five records with distinct amounts have been bucketed, two of
   them into Low. *)
C11_Witness ==
    /\ pc = "age_group"
    /\ Len(df) = 5
    /\ NoTies(df)
    /\ CountOf("Low") = 2
AgeGroupRan == pc \in {"export", "metrics", "done"}

(* The label of an age (quarter years) by the right-closed edges (17, 25],
   (25, 35], (35, 50], (50, 65], (65, 90]. *)
RightClosedLabel(a) ==
    IF a <= Years(25) THEN "18-25"
    ELSE IF a <= Years(35) THEN "26-35"
    ELSE IF a <= Years(50) THEN "36-50"
    ELSE IF a <= Years(65) THEN "51-65"
    ELSE "65+"

(* C12: age_group is a function of the record's age alone (records of equal
   age get the same label, whatever the rest of the table holds) and is total
   over [18, 90]: every age in that range gets the label of its right-closed
   interval and never null. *)
C12_AgeGroupTotalFunction ==
    AgeGroupRan =>
        /\ \A i \in 1..Len(df) :
              (~IsNull(df[i].age) /\ Years(AgeLower) <= Val(df[i].age)
                                 /\ Val(df[i].age) <= Years(AgeUpper))
                  => df[i].age_group = Some(RightClosedLabel(Val(df[i].age)))
        /\ \A i, j \in 1..Len(df) :
              df[i].age = df[j].age => df[i].age_group = df[j].age_group
        /\ \A a \in Years(AgeLower)..Years(AgeUpper) :
              CutAge(Some(a)) = Some(RightClosedLabel(a))

(* C12's case: age_group has been derived on a table that holds two records
   of age 25 with different purchase categories and a record of age 25.25,
   just past the edge. *)
C12_Witness ==
    /\ AgeGroupRan
    /\ \E i, j, k \in 1..Len(df) :
          /\ df[i].age = Some(Years(25)) /\ df[j].age = Some(Years(25))
          /\ df[i].purchase_category # df[j].purchase_category
          /\ df[i].age_group = Some("18-25")
          /\ df[k].age = Some(Years(25) + 1)
          /\ df[k].age_group = Some("26-35")
----------------------------------------------------------------------------
(* Properties of the export *)

(* The export cell has run: it returned or it raised. *)
ExportOver == pc \in {"metrics", "done"} \/ err = "OSError"

(* C13: the export is all-or-nothing: either the complete file (the header
   and one line per record) has been written, or the cell failed with an
   IOError and left no partially written file. *)
C13_ExportAllOrNothing ==
    ExportOver =>
        \/ err = "" /\ csv = ToCsv(df)
        \/ err = "OSError" /\ csv = << >>
----------------------------------------------------------------------------
(* Properties of the forward pass *)

(* A batch of 28 x 28 images: (.., 28, 28), 784 values per sample. *)
IsImageBatch(shape) ==
    /\ Len(shape) >= 2
    /\ shape[Len(shape)] = ImageSide
    /\ shape[Len(shape) - 1] = ImageSide

(* C14: a tensor whose shape is not that of a batch of 28 x 28 images is
   rejected by the forward pass (with a ShapeMismatchError); none is reshaped
   into rows of 784 values and scored. *)
C14_WrongShapeRejected ==
    (outputs # << >> /\ ~IsImageBatch(images.shape)) =>
        (outputs.raised # "" /\ outputs.logits = << >>)
----------------------------------------------------------------------------
(* Properties of the text columns *)

(* The standard form "+1-555-NNNN" of a phone number. *)
IsStandardPhone(c) == ~IsNull(c) /\ Val(c)[1] = "+1-555-" /\ Len(Val(c)) = 2

(* C15: after cleaning no record keeps a phone_number that is not in the
   standard form; none keeps the literal "invalid" of the raw data. *)
C15_PhonesStandardized ==
    CleaningOver => \A i \in 1..Len(df) : IsStandardPhone(df[i].phone_number)
----------------------------------------------------------------------------
(* Properties of the parameter file *)

InEpoch == tpc \in {"Training", "Validating"}

(* C16: no parameter file is written while the loop is in Training or
   Validating (the file changes in the save cell only, which follows Done),
   and an exception in the middle of an epoch is fatal: no cell runs after
   it, nothing is retried, and what the epoch did is lost, there being no
   file and no validation loss recorded for it. *)
C16_NoCheckpointCrashFatal ==
    /\ [](InEpoch \/ tpc \in {"Uninitialized", "Done"} => file = << >>)
    /\ [][file' # file => tpc = "Save"]_vars
    /\ [][terr.exception = ""]_vars
    /\ []((tpc = "Crashed" /\ terr.at \in {"Training", "Validating"}) =>
             /\ file = << >>
             /\ loaded_model = << >>
             /\ Len(val_losses) = epoch)

(* C16's case: the loop crashed in an epoch after two training batches had
   updated the parameters. *)
C16_Witness ==
    /\ tpc = "Crashed"
    /\ terr.at = "Validating"
    /\ optimizer.t = 2
    /\ file = << >>
----------------------------------------------------------------------------
(* Properties of the two passes of the repair *)

(* The first fill value: the statistic of the raw column, the negative
   sentinels included. *)
FirstAge == Median(Column(raw, "age"))
FirstPurchase == Mean(Column(raw, "purchase_amount"))

(* The second fill value: the statistic of the once-filled column with the
   negatives left out. *)
SecondAge == Median(NullNegatives(FillNa(Column(raw, "age"), FirstAge)))
SecondPurchase ==
    Mean(NullNegatives(FillNa(Column(raw, "purchase_amount"), FirstPurchase)))

(* What the two passes leave in the column: the first statistic in a cell
   that was null (the second one if the first is negative or undefined), the
   second statistic in a cell that held a negative, the value otherwise. *)
TwoPasses(col, first, second) ==
    \A i \in 1..Len(raw) :
        IF IsNull(raw[i][col])
        THEN IF ~IsNull(first) /\ Val(first) >= 0
             THEN df[i][col] = first
             ELSE df[i][col] = second
        ELSE IF Val(raw[i][col]) < 0
             THEN df[i][col] = second
             ELSE df[i][col] = raw[i][col]

(* C18: the repair of age (median) and of purchase_amount (mean) fills in two
   passes with two statistics: a cell that was null ends with the statistic
   of the raw column, sentinels included (unless that statistic is negative),
   a cell that held a negative ends with the statistic of the once-filled
   column without the negatives. *)
C18_TwoPassRepair ==
    RepairOver =>
        /\ TwoPasses("age", FirstAge, SecondAge)
        /\ TwoPasses("purchase_amount", FirstPurchase, SecondPurchase)

(* C18's case: a repaired table whose raw age and purchase_amount columns
   each held a null and a negative, filled with two different values. *)
C18_Witness ==
    /\ RepairOver
    /\ \E i, j \in 1..Len(raw) :
          /\ IsNull(raw[i].age)
          /\ ~IsNull(raw[j].age) /\ Val(raw[j].age) < 0
          /\ df[i].age = FirstAge /\ df[j].age = SecondAge
          /\ FirstAge # SecondAge /\ Val(FirstAge) >= 0
    /\ \E i, j \in 1..Len(raw) :
          /\ IsNull(raw[i].purchase_amount)
          /\ ~IsNull(raw[j].purchase_amount) /\ Val(raw[j].purchase_amount) < 0
          /\ df[i].purchase_amount = FirstPurchase
          /\ df[j].purchase_amount = SecondPurchase
          /\ FirstPurchase # SecondPurchase /\ Val(FirstPurchase) >= 0
----------------------------------------------------------------------------
(* Properties of the quartile edges *)

(* The purchase_amount column after repair and 2-decimal rounding. *)
RoundedAmounts == Column(RoundPurchase(Repair(raw)), "purchase_amount")

(* The interior quartile edges (times 4) of a column that lie below x. *)
EdgesBelow(cells, x) ==
    {k \in 1..(NumQuantiles - 1) : QcutEdge4(cells, k) < NumQuantiles * x}

(* The label of x by the edges of the column: the bucket after the interior
   edges that lie below x, so that a value on an edge is in the lower one. *)
LabelBy(cells, x) == PurchaseLabels[Cardinality(EdgesBelow(cells, x)) + 1]

PurchaseCategoryDone == pc \in {"age_group", "export", "metrics", "done"}

(* C19: the quartile edges of purchase_category are those of the
   purchase_amount column as it stands after repair and 2-decimal rounding,
   and a record whose purchase_amount equals an interior edge is in the lower
   of the two adjacent buckets. *)
C19_EdgesFromCleanedColumn ==
    PurchaseCategoryDone =>
        LET cells == Column(df, "purchase_amount")
        IN  /\ cells = RoundedAmounts
            /\ \A i \in 1..Len(df) :
                  /\ df[i].purchase_category = Some(LabelBy(cells, Val(cells[i])))
                  /\ \A k \in 1..(NumQuantiles - 1) :
                        NumQuantiles * Val(cells[i]) = QcutEdge4(cells, k)
                            => df[i].purchase_category = Some(PurchaseLabels[k])

(* C19's case: a record on the middle edge has been put in Medium, in a
   table where the edges of the raw column and of the repaired but unrounded
   column would have given some record another label. *)
C19_Witness ==
    /\ PurchaseCategoryDone
    /\ \E i \in 1..Len(df) :
          /\ NumQuantiles * Val(df[i].purchase_amount)
                = QcutEdge4(Column(df, "purchase_amount"), 2)
          /\ df[i].purchase_category = Some("Medium")
    /\ \E i \in 1..Len(df) :
          /\ ~IsNull(raw[i].purchase_amount)
          /\ ~QcutRaises(Column(raw, "purchase_amount"))
          /\ df[i].purchase_category
                # Some(LabelBy(Column(raw, "purchase_amount"), Val(raw[i].purchase_amount)))
----------------------------------------------------------------------------
(* Properties of satisfaction_score *)

IsScore(v) == v % 2 = 0 /\ Score(1) <= v /\ v <= Score(5)

(* Every non-null raw satisfaction_score is an integer in 1..5, and there is
   one. *)
RawScoresValid ==
    /\ \E i \in 1..Len(raw) : ~IsNull(raw[i].satisfaction_score)
    /\ \A i \in 1..Len(raw) :
          ~IsNull(raw[i].satisfaction_score) => IsScore(Val(raw[i].satisfaction_score))

(* C20: if every non-null raw satisfaction_score is an integer in 1..5 and
   one of them is non-null, then after the median fill and the rounding every
   satisfaction_score is an integer in 1..5. *)
C20_ScoresStayInRange ==
    (RoundSatisfactionRan /\ RawScoresValid) =>
        \A i \in 1..Len(df) :
            /\ ~IsNull(df[i].satisfaction_score)
            /\ IsScore(Val(df[i].satisfaction_score))

(* C20's case: a null score was filled with a half-integer median, which the
   rounding then made an integer. *)
C20_Witness ==
    /\ RoundSatisfactionRan
    /\ RawScoresValid
    /\ \E i \in 1..Len(raw) :
          /\ IsNull(raw[i].satisfaction_score)
          /\ Val(Median(Column(raw, "satisfaction_score"))) % 2 = 1
          /\ df[i].satisfaction_score
                = Some(RoundInt(Val(Median(Column(raw, "satisfaction_score")))))
----------------------------------------------------------------------------
(* Properties of the rows *)

(* Row i of the table is the row that was loaded as row i. *)
SameRecord(i) ==
    /\ df[i].customer_id = raw[i].customer_id
    /\ df[i].name = raw[i].name
    /\ df[i].purchase_date = raw[i].purchase_date

(* C21: no cleaning, derivation, export or summary step adds, removes or
   reorders a row: the table keeps the rows it was loaded with, in order,
   with their customer_id, name and purchase_date; the export holds one line
   for each of them after the header; Total Records is their number. *)
C21_RowsPreserved ==
    pc # "idle" =>
        /\ Len(df) = Len(raw)
        /\ \A i \in 1..Len(df) : SameRecord(i)
        /\ ExportOver => csv = <<Columns>> \o df
        /\ quality_metrics # << >> => quality_metrics.total_records = Len(raw)
----------------------------------------------------------------------------
(* Properties of the mode flag *)

(* The training loop has made its last transition and the cells after it
   run, or have run, on the model. *)
AfterLoop == tpc \in {"Evaluating", "Save", "Load", "Predict", "End"}

(* C22, as stated: the model is in train mode at every parameter update and
   in eval mode at every validation, evaluate_model and prediction forward
   pass; every epoch re-enters train mode from the eval mode its
   predecessor's validation left; once the loop is Done the model is in eval
   mode and stays so through evaluation, save and prediction. *)
C22_ModeFlag ==
    /\ tpc = "Training" => model.training
    /\ tpc = "Validating" => ~model.training
    /\ tpc = "Done" \/ AfterLoop => ~model.training

(* C22, amended: as stated, except that a loop of zero epochs is Done with
   the model still in the train mode it was constructed in; the model is in
   eval mode at Done after at least one epoch, and in every case from the
   entry of evaluate_model on. *)
C22_ModeFlagAfterEpochs ==
    /\ tpc = "Training" => model.training
    /\ tpc = "Validating" => ~model.training
    /\ tpc = "Done" /\ epochs >= 1 => ~model.training
    /\ tpc = "Done" /\ epochs = 0 => model.training
    /\ AfterLoop => ~model.training

(* Two epochs ran, the second one's updates after the first one's
   validation, and the prediction was made in eval mode. *)
C22_Witness ==
    /\ tpc = "End"
    /\ prediction # << >>
    /\ ~model.training
    /\ \E i, j \in 1..Len(log) :
          /\ i < j
          /\ log[i].phase = "val" /\ log[i].epoch = 1
          /\ log[j].phase = "train" /\ log[j].epoch = 2
----------------------------------------------------------------------------
(* Properties of the loss accumulators *)

(* The loss of the training batch logged with gradient g. *)
LossOf(g) == (CHOOSE b \in TrainBatches : b.g = g).loss

(* The sum of the losses of the training batches logged for epoch e (from 1). *)
TrainLossSum(e) ==
    LET entries == SelectSeq(log, LAMBDA entry : entry.phase = "train" /\ entry.epoch = e)
    IN  SeqSum([k \in 1..Len(entries) |-> LossOf(entries[k].g)])

(* The sum of the losses of the first n validation batches under the model's
   present parameters, which validation leaves alone. *)
ValLossSum(n) ==
    SeqSum([k \in 1..n |-> Criterion(model.params, Batch(test_dataset, batch_size, k))])

(* The lengths of the two lists in each state of the loop; the variable epoch
   counts from 0, so that Training(e) and Validating(e) are epoch = e - 1. *)
LossListLengths ==
    /\ tpc = "Training" => Len(train_losses) = epoch /\ Len(val_losses) = epoch
    /\ tpc = "Validating" => Len(train_losses) = epoch + 1 /\ Len(val_losses) = epoch
    /\ tpc = "Done" \/ AfterLoop => Len(train_losses) = epochs /\ Len(val_losses) = epochs

(* C23: the running train and validation losses are zero at the start of
   their phase in every epoch and hold the sum of the phase's batch losses so
   far; every epoch appends exactly one train average, the sum of its batch
   losses over the number of train batches, and one validation average:
   during Training(e) both lists have length e - 1, during Validating(e) the
   train list has length e and the validation list e - 1, and at Done both
   have the length of the configured epoch count. *)
C23_OneAveragePerEpoch ==
    /\ [](tpc = "Training" =>
             /\ it = 0 => train_loss = 0
             /\ train_loss = TrainLossSum(epoch + 1))
    /\ [](tpc = "Validating" =>
             /\ it = 0 => val_loss = 0
             /\ val_loss = ValLossSum(it))
    /\ []LossListLengths
    /\ [](\A e \in 1..Len(train_losses) :
             train_losses[e] = [num |-> TrainLossSum(e), den |-> train_loader])
    /\ [][val_losses' # val_losses =>
             val_losses' = Append(val_losses,
                                  [num |-> ValLossSum(TestBatches), den |-> TestBatches])]_vars

(* Two epochs of two training batches each are over, with different
   averages, the second one of a non-zero sum, and a non-zero validation
   average. *)
C23_Witness ==
    /\ tpc = "Done"
    /\ epochs = 2
    /\ train_loader = 2
    /\ Len(train_losses) = 2 /\ Len(val_losses) = 2
    /\ train_losses[1] # train_losses[2]
    /\ train_losses[2].num > 0
    /\ val_losses[2].num > 0

====
